---- MODULE Spec2Model ----
(***************************************************************************)
(* Erasure-coding engine of the RS-vs-LRC simulator: EncoderRS, EncoderLRC *)
(* and the LRC reconstruction path of Simulator, over byte sequences.      *)
(* Bytes are integers 0..255; a bytes object is a sequence of them.        *)
(***************************************************************************)
EXTENDS Integers, Sequences, FiniteSets, TLC

(***************************************************************************)
(* Bounds of the model.                                                    *)
(***************************************************************************)
MaxLen == 3
MaxK == 3
MaxGroupSize == 2
MaxLocalParity == 2
MaxGlobalParity == 2
MaxR == 2
MaxFail == 2
MaxSpare == 1
MaxClusterNodes == 2
MaxIndices == 2
MaxRunNodes == 6
MaxRunFail == 2

\* config/constants.py
LRC_GLOBAL_PARITY == 2

\* payload byte values the model draws from
ByteChoices == {0, 1}

\* Python's None, kept apart from every bytes object
None == <<-1>>

Min(a, b) == IF a < b THEN a ELSE b
Max(a, b) == IF a > b THEN a ELSE b

RECURSIVE SeqsUpTo(_, _)
SeqsUpTo(S, n) ==
    IF n = 0 THEN {<<>>}
    ELSE LET shorter == SeqsUpTo(S, n - 1)
         IN  shorter \cup {Append(s, x) : s \in {t \in shorter : Len(t) = n - 1}, x \in S}

Payloads == SeqsUpTo(ByteChoices, MaxLen) \ {<<>>}

(***************************************************************************)
(* Python sequence semantics.                                              *)
(***************************************************************************)
\* s[a:b] for 0 <= a, 0 <= b: both ends are clipped to len(s)
Slice(s, a, b) ==
    LET lo == Min(a, Len(s))
        hi == Max(lo, Min(b, Len(s)))
    IN  SubSeq(s, lo + 1, hi)

\* bytearray slice assignment s[a:b] = v: the slice is replaced by v, whatever
\* its length, so the array grows or shrinks
SliceAssign(s, a, b, v) ==
    LET lo == Min(a, Len(s))
        hi == Max(lo, Min(b, Len(s)))
    IN  SubSeq(s, 1, lo) \o v \o SubSeq(s, hi + 1, Len(s))

\* a sequence given element by element, evaluated once
List(f, n) == SubSeq(f, 1, n)

Zeros(n) == List([i \in 1..n |-> 0], n)

RECURSIVE Join(_)
Join(frags) == IF frags = <<>> THEN <<>> ELSE Head(frags) \o Join(Tail(frags))

\* while out and out[-1] == 0: out.pop()
RECURSIVE StripZeros(_)
StripZeros(out) ==
    IF out # <<>> /\ out[Len(out)] = 0
    THEN StripZeros(SubSeq(out, 1, Len(out) - 1))
    ELSE out

\* a ^ b on bytes, bit by bit
XorBit(a, b, w) == w * ((((a \div w) % 2) + ((b \div w) % 2)) % 2)
Xor(a, b) ==
    XorBit(a, b, 1) + XorBit(a, b, 2) + XorBit(a, b, 4) + XorBit(a, b, 8)
    + XorBit(a, b, 16) + XorBit(a, b, 32) + XorBit(a, b, 64) + XorBit(a, b, 128)

(***************************************************************************)
(* reedsolo: GF(2^8) with primitive polynomial 0x11d and generator 2.      *)
(***************************************************************************)
field_charac == 255
nsize == 255

\* init_tables(prim = 0x11d, generator = 2): gf_exp[i + 1] = 2^i for i in 0..254
gf_exp ==
    <<
        1, 2, 4, 8, 16, 32, 64, 128, 29, 58, 116, 232, 205, 135, 19, 38,
        76, 152, 45, 90, 180, 117, 234, 201, 143, 3, 6, 12, 24, 48, 96, 192,
        157, 39, 78, 156, 37, 74, 148, 53, 106, 212, 181, 119, 238, 193, 159, 35,
        70, 140, 5, 10, 20, 40, 80, 160, 93, 186, 105, 210, 185, 111, 222, 161,
        95, 190, 97, 194, 153, 47, 94, 188, 101, 202, 137, 15, 30, 60, 120, 240,
        253, 231, 211, 187, 107, 214, 177, 127, 254, 225, 223, 163, 91, 182, 113, 226,
        217, 175, 67, 134, 17, 34, 68, 136, 13, 26, 52, 104, 208, 189, 103, 206,
        129, 31, 62, 124, 248, 237, 199, 147, 59, 118, 236, 197, 151, 51, 102, 204,
        133, 23, 46, 92, 184, 109, 218, 169, 79, 158, 33, 66, 132, 21, 42, 84,
        168, 77, 154, 41, 82, 164, 85, 170, 73, 146, 57, 114, 228, 213, 183, 115,
        230, 209, 191, 99, 198, 145, 63, 126, 252, 229, 215, 179, 123, 246, 241, 255,
        227, 219, 171, 75, 150, 49, 98, 196, 149, 55, 110, 220, 165, 87, 174, 65,
        130, 25, 50, 100, 200, 141, 7, 14, 28, 56, 112, 224, 221, 167, 83, 166,
        81, 162, 89, 178, 121, 242, 249, 239, 195, 155, 43, 86, 172, 69, 138, 9,
        18, 36, 72, 144, 61, 122, 244, 245, 247, 243, 251, 235, 203, 139, 11, 22,
        44, 88, 176, 125, 250, 233, 207, 131, 27, 54, 108, 216, 173, 71, 142 >>

\* gf_log[v] = i where 2^i = v, for v in 1..255
gf_log ==
    <<
        0, 1, 25, 2, 50, 26, 198, 3, 223, 51, 238, 27, 104, 199, 75, 4,
        100, 224, 14, 52, 141, 239, 129, 28, 193, 105, 248, 200, 8, 76, 113, 5,
        138, 101, 47, 225, 36, 15, 33, 53, 147, 142, 218, 240, 18, 130, 69, 29,
        181, 194, 125, 106, 39, 249, 185, 201, 154, 9, 120, 77, 228, 114, 166, 6,
        191, 139, 98, 102, 221, 48, 253, 226, 152, 37, 179, 16, 145, 34, 136, 54,
        208, 148, 206, 143, 150, 219, 189, 241, 210, 19, 92, 131, 56, 70, 64, 30,
        66, 182, 163, 195, 72, 126, 110, 107, 58, 40, 84, 250, 133, 186, 61, 202,
        94, 155, 159, 10, 21, 121, 43, 78, 212, 229, 172, 115, 243, 167, 87, 7,
        112, 192, 247, 140, 128, 99, 13, 103, 74, 222, 237, 49, 197, 254, 24, 227,
        165, 153, 119, 38, 184, 180, 124, 17, 68, 146, 217, 35, 32, 137, 46, 55,
        63, 209, 91, 149, 188, 207, 205, 144, 135, 151, 178, 220, 252, 190, 97, 242,
        86, 211, 171, 20, 42, 93, 158, 132, 60, 57, 83, 71, 109, 65, 162, 31,
        45, 67, 216, 183, 123, 164, 118, 196, 23, 73, 236, 127, 12, 111, 246, 108,
        161, 59, 82, 41, 157, 85, 170, 251, 96, 134, 177, 187, 204, 62, 90, 203,
        89, 95, 176, 156, 169, 160, 81, 11, 245, 22, 235, 122, 117, 44, 215, 79,
        174, 213, 233, 230, 231, 173, 232, 116, 214, 244, 234, 168, 80, 88, 175 >>

gf_mul(x, y) ==
    IF x = 0 \/ y = 0 THEN 0
    ELSE gf_exp[((gf_log[x] + gf_log[y]) % field_charac) + 1]

gf_div(x, y) ==
    IF x = 0 THEN 0
    ELSE gf_exp[((gf_log[x] + field_charac - gf_log[y]) % field_charac) + 1]

gf_pow(x, power) == gf_exp[((gf_log[x] * power) % field_charac) + 1]

\* polynomials are sequences of coefficients, highest degree first
RECURSIVE XorAll(_)
XorAll(s) == IF s = <<>> THEN 0 ELSE Xor(Head(s), XorAll(Tail(s)))

gf_poly_mul(p, q) ==
    List([j \in 1..(Len(p) + Len(q) - 1) |->
            XorAll(List([i \in 1..Len(p) |->
                IF j - i + 1 >= 1 /\ j - i + 1 <= Len(q)
                THEN gf_mul(p[i], q[j - i + 1]) ELSE 0], Len(p)))],
         Len(p) + Len(q) - 1)

RECURSIVE gf_poly_eval(_, _)
gf_poly_eval(poly, x) ==
    IF Len(poly) = 0 THEN 0
    ELSE IF Len(poly) = 1 THEN poly[1]
    ELSE Xor(gf_mul(gf_poly_eval(SubSeq(poly, 1, Len(poly) - 1), x), x), poly[Len(poly)])

RECURSIVE rs_generator_poly(_)
rs_generator_poly(nsym) ==
    IF nsym = 0 THEN <<1>>
    ELSE gf_poly_mul(rs_generator_poly(nsym - 1), <<1, gf_pow(2, nsym - 1)>>)

\* synthetic division of msg * x^nsym by the generator; the remainder is the
\* parity and the message is kept in front of it (systematic code)
RECURSIVE DivStep(_, _, _, _)
DivStep(out, gen, i, msgLen) ==
    IF i > msgLen THEN out
    ELSE LET coef == out[i]
             nxt  == IF coef = 0 THEN out
                     ELSE List([p \in 1..Len(out) |->
                                 IF p > i /\ p - i < Len(gen)
                                 THEN Xor(out[p], gf_mul(gen[p - i + 1], coef))
                                 ELSE out[p]], Len(out))
         IN  DivStep(nxt, gen, i + 1, msgLen)

rs_encode_msg(msg, nsym) ==
    LET rem == DivStep(msg \o Zeros(nsym), rs_generator_poly(nsym), 1, Len(msg))
    IN  msg \o SubSeq(rem, Len(msg) + 1, Len(msg) + nsym)

rs_calc_syndromes(msg, nsym) ==
    List([i \in 1..nsym |-> gf_poly_eval(msg, gf_pow(2, i - 1))], nsym)

IsCodeword(msg, nsym) == rs_calc_syndromes(msg, nsym) = Zeros(nsym)

\* the byte offsets of fragment i in a codeword of fragment_size-byte slices
FragmentBytes(i, frag_size) == (i * frag_size)..((i + 1) * frag_size - 1)

\* outcome of a call: the value returned, or the exception raised
Ok(v) == [exc |-> "", val |-> v]
Raise(e) == [exc |-> e, val |-> <<>>]

RECURSIVE SubsetsUpTo(_, _)
SubsetsUpTo(S, m) ==
    IF m = 0 THEN {{}}
    ELSE LET prev == SubsetsUpTo(S, m - 1)
         IN  prev \cup {T \cup {x} : T \in prev, x \in S}

\* rs_correct_errata: the magnitudes at the errata positions T (0-based) solve
\* synd[i] = SUM_{p in T} e_p * X_p^i with X_p = 2^(n-1-p); they are XORed
\* into the message
rs_correct_errata(msg, synd, T) ==
    LET n == Len(msg)
        X(p) == gf_pow(2, n - 1 - p)
        RECURSIVE Loc(_)
        Loc(Q) == IF Q = {} THEN <<1>>
                  ELSE LET q == CHOOSE q \in Q : TRUE
                       IN  gf_poly_mul(Loc(Q \ {q}), <<1, X(q)>>)
        mag(p) == LET Lp  == Loc(T \ {p})
                      tau == Len(Lp)
                  IN  gf_div(XorAll(List([i \in 1..tau |-> gf_mul(Lp[tau - i + 1], synd[i])], tau)),
                             gf_poly_eval(Lp, X(p)))
    IN  List([j \in 1..n |-> IF (j - 1) \in T THEN Xor(msg[j], mag(j - 1)) ELSE msg[j]], n)

\* rs_correct_msg: errors-and-erasures decoding of one chunk. The erased
\* positions are zeroed; the chunk is corrected to the codeword that differs
\* from it in the erased positions and in e further ones, 2e + erasures <= nsym,
\* and ReedSolomonError is raised when there is none.
rs_correct_msg(msg_in, nsym, erase_pos) ==
    IF Len(msg_in) > field_charac THEN Raise("ValueError")
    ELSE IF \E e \in erase_pos : e >= Len(msg_in) THEN Raise("IndexError")
    ELSE IF Cardinality(erase_pos) > nsym THEN Raise("ReedSolomonError")
    ELSE
      LET n       == Len(msg_in)
          msg_out == List([j \in 1..n |-> IF (j - 1) \in erase_pos THEN 0 ELSE msg_in[j]], n)
          synd    == rs_calc_syndromes(msg_out, nsym)
          split(c) == Ok(<<Slice(c, 0, Max(0, n - nsym)), Slice(c, Max(0, n - nsym), n)>>)
      IN  IF synd = Zeros(nsym) THEN split(msg_out)
          ELSE
            LET erased == rs_correct_errata(msg_out, synd, erase_pos)
            IN  IF IsCodeword(erased, nsym) THEN split(erased)
                ELSE
                  LET err_sets == SubsetsUpTo((0..(n - 1)) \ erase_pos,
                                              (nsym - Cardinality(erase_pos)) \div 2)
                      fixed(T) == rs_correct_errata(msg_out, synd, erase_pos \cup T)
                      good     == {T \in err_sets : IsCodeword(fixed(T), nsym)}
                  IN  IF good = {} THEN Raise("ReedSolomonError")
                      ELSE split(fixed(CHOOSE T \in good : TRUE))

\* RSCodec(nsym): nsym >= nsize is rejected by the constructor
RSCodec(nsym) == IF nsym >= nsize THEN Raise("ValueError") ELSE Ok(nsym)

\* RSCodec.encode: the data is cut into chunks of nsize - nsym bytes and each
\* chunk is followed by its nsym parity bytes
RECURSIVE RSCodec_encode(_, _)
RSCodec_encode(nsym, data) ==
    IF data = <<>> THEN <<>>
    ELSE rs_encode_msg(Slice(data, 0, nsize - nsym), nsym)
         \o RSCodec_encode(nsym, Slice(data, nsize - nsym, Len(data)))

\* RSCodec.decode over the chunks: the first chunk that fails raises, otherwise
\* the corrected messages are joined
RSCodec_chunks(first, rest) ==
    IF first.exc # "" THEN first
    ELSE IF rest.exc # "" THEN rest
    ELSE Ok(first.val[1] \o rest.val)

\* RSCodec.decode: chunks of nsize bytes, each with the erasures that fall in
\* it; val is the decoded message, an exception of a chunk ends the call
RECURSIVE RSCodec_decode(_, _, _)
RSCodec_decode(nsym, data, erase_pos) ==
    IF data = <<>> THEN Ok(<<>>)
    ELSE RSCodec_chunks(
           rs_correct_msg(Slice(data, 0, nsize), nsym, {x \in erase_pos : x < nsize}),
           RSCodec_decode(nsym, Slice(data, nsize, Len(data)),
                          {x - nsize : x \in {y \in erase_pos : y >= nsize}}))

(***************************************************************************)
(* EncoderRS                                                               *)
(***************************************************************************)
\* EncoderRS._init_rs: fragment_size; nsym = r * fragment_size
init_rs(k, data_len) == (data_len + k - 1) \div k

\* EncoderRS.encode: the codeword of the unpadded data, cut into k + r slices
\* of fragment_size bytes
EncoderRS_encode(k, r, payload) ==
    LET frag_size == init_rs(k, Len(payload))
        nsym      == r * frag_size
        codec     == RSCodec(nsym)
        codeword  == RSCodec_encode(nsym, payload)
    IN  IF codec.exc # "" THEN [exc |-> codec.exc, nsym |-> nsym, codeword |-> <<>>, fragments |-> <<>>]
        ELSE [exc |-> "", nsym |-> nsym, codeword |-> codeword,
              fragments |-> List([i \in 1..(k + r) |->
                                    Slice(codeword, (i - 1) * frag_size, i * frag_size)],
                                 k + r)]

\* the loop of EncoderRS.decode over i in range(total): st is
\* <<codeword, erasures>> after fragments 0..i-1
RECURSIVE RebuildCodeword(_, _, _, _, _)
RebuildCodeword(st, fragments, frag_size, i, total) ==
    IF i >= total THEN st
    ELSE LET start == i * frag_size
             nxt == IF i < Len(fragments) /\ fragments[i + 1] # None
                    THEN <<SliceAssign(st[1], start, start + frag_size, fragments[i + 1]), st[2]>>
                    ELSE <<st[1], st[2] \o List([j \in 1..frag_size |-> start + j - 1], frag_size)>>
         IN  RebuildCodeword(nxt, fragments, frag_size, i + 1, total)

\* the outcome of decode, with the codeword and the erasures it was given
DecodeOutcome(corrected, st) ==
    [exc |-> corrected.exc, val |-> corrected.val, codeword |-> st[1], erasures |-> st[2]]

\* EncoderRS.decode: self.rsc.decode on the rebuilt codeword and its erasures
DecodeRebuilt(nsym, st) ==
    DecodeOutcome(RSCodec_decode(nsym, st[1], {st[2][j] : j \in 1..Len(st[2])}), st)

\* EncoderRS.decode with the codec left by the last encode (self.rsc, nsym)
EncoderRS_decode(k, r, nsym, fragments) ==
    LET present == {i \in 1..Len(fragments) : fragments[i] # None}
        none    == [exc |-> "ValueError", val |-> <<>>, codeword |-> <<>>, erasures |-> <<>>]
    IN  IF Len(fragments) < k THEN none
        ELSE IF present = {} THEN none
        ELSE LET first     == CHOOSE i \in present : \A j \in present : i <= j
                 frag_size == Len(fragments[first])
                 st        == RebuildCodeword(<<Zeros((k + r) * frag_size), <<>>>>,
                                              fragments, frag_size, 0, k + r)
             IN  DecodeRebuilt(nsym, st)

(***************************************************************************)
(* EncoderLRC                                                              *)
(***************************************************************************)
\* EncoderLRC.__init__
num_groups(k, group_size) == (k + group_size - 1) \div group_size

total_fragments(k, group_size, local_parity, global_parity) ==
    k + (num_groups(k, group_size) * local_parity) + global_parity

\* the group parity as it would be if it copied the group's first fragment
XorFragments_FirstOnly(frags, size) == frags[1]

\* bytewise XOR of equally long fragments, over the first size bytes
XorFragments(frags, size) ==
    List([i \in 1..size |-> XorAll(List([f \in 1..Len(frags) |-> frags[f][i]], Len(frags)))],
         size)

\* a data fragment as it would be if encode put the padding in front
PadFragment_PadLeft(frag, fragment_size) == Zeros(fragment_size - Len(frag)) \o frag

\* frag + b"\x00" * (self.fragment_size - len(frag))
PadFragment(frag, fragment_size) == frag \o Zeros(fragment_size - Len(frag))

\* EncoderLRC.encode: k zero-padded data fragments, one XOR parity per group,
\* global_parity slices of the RS parity of the joined data fragments
EncoderLRC_encode(k, group_size, global_parity, payload) ==
    LET fragment_size  == (Len(payload) + k - 1) \div k
        data_fragments ==
            List([i \in 1..k |->
                    LET frag == Slice(payload, (i - 1) * fragment_size, i * fragment_size)
                    IN  PadFragment(frag, fragment_size)], k)
        ngroups        == num_groups(k, group_size)
        local_parities ==
            List([grp \in 1..ngroups |->
                    LET start == (grp - 1) * group_size
                        end   == Min(start + group_size, k)
                    IN  XorFragments(Slice(data_fragments, start, end), fragment_size)],
                 ngroups)
        nsym           == global_parity * fragment_size
        codec          == RSCodec(nsym)
        codeword       == RSCodec_encode(nsym, Join(data_fragments))
        rs_parity      == Slice(codeword, Len(codeword) - nsym, Len(codeword))
        global_parity_frags ==
            List([i \in 1..global_parity |->
                    Slice(rs_parity, (i - 1) * fragment_size, i * fragment_size)],
                 global_parity)
    IN  IF codec.exc # ""
        THEN [exc |-> codec.exc, fragment_size |-> fragment_size, nsym |-> nsym,
              fragments |-> <<>>]
        ELSE [exc |-> "", fragment_size |-> fragment_size, nsym |-> nsym,
              fragments |-> data_fragments \o local_parities \o global_parity_frags]

\* local_repair as it would be if it read the first group's local parity for
\* every group: the variant the exactness of local repair must tell apart
EncoderLRC_local_repair_FirstParity(k, group_size, fragment_size, fragments, missing_index) ==
    LET group_id  == missing_index \div group_size
        start     == group_id * group_size
        end       == Min(start + group_size, k)
        local_parity_idx == k
        available == {i \in start..(end - 1) :
                        fragments[i + 1] # None /\ i # missing_index}
        used      == {local_parity_idx} \cup available
    IN  IF local_parity_idx >= Len(fragments) \/ end > Len(fragments) THEN Raise("IndexError")
        ELSE IF fragments[local_parity_idx + 1] = None THEN Ok(None)
        ELSE IF Cardinality(available) # end - start - 1 THEN Ok(None)
        ELSE IF \E i \in used : Len(fragments[i + 1]) < fragment_size THEN Raise("IndexError")
        ELSE Ok(List([b \in 1..fragment_size |->
                        LET RECURSIVE XorOver(_)
                            XorOver(S) ==
                                IF S = {} THEN 0
                                ELSE LET i == CHOOSE i \in S : TRUE
                                     IN  Xor(fragments[i + 1][b], XorOver(S \ {i}))
                        IN  XorOver(used)],
                     fragment_size))

\* local_repair as it would be without the count of the group's surviving
\* data fragments
EncoderLRC_local_repair_NoCount(k, group_size, fragment_size, fragments, missing_index) ==
    LET group_id  == missing_index \div group_size
        start     == group_id * group_size
        end       == Min(start + group_size, k)
        local_parity_idx == k + group_id
        available == {i \in start..(end - 1) :
                        fragments[i + 1] # None /\ i # missing_index}
        used      == {local_parity_idx} \cup available
    IN  IF local_parity_idx >= Len(fragments) \/ end > Len(fragments) THEN Raise("IndexError")
        ELSE IF fragments[local_parity_idx + 1] = None THEN Ok(None)
        ELSE IF \E i \in used : Len(fragments[i + 1]) < fragment_size THEN Raise("IndexError")
        ELSE Ok(List([b \in 1..fragment_size |->
                        LET RECURSIVE XorOver(_)
                            XorOver(S) ==
                                IF S = {} THEN 0
                                ELSE LET i == CHOOSE i \in S : TRUE
                                     IN  Xor(fragments[i + 1][b], XorOver(S \ {i}))
                        IN  XorOver(used)],
                     fragment_size))

\* local_repair as it would be if it asked for group_size - 1 surviving
\* fragments whatever the size of the group
EncoderLRC_local_repair_FullGroup(k, group_size, fragment_size, fragments, missing_index) ==
    LET group_id  == missing_index \div group_size
        start     == group_id * group_size
        end       == Min(start + group_size, k)
        local_parity_idx == k + group_id
        available == {i \in start..(end - 1) :
                        fragments[i + 1] # None /\ i # missing_index}
        used      == {local_parity_idx} \cup available
    IN  IF local_parity_idx >= Len(fragments) \/ end > Len(fragments) THEN Raise("IndexError")
        ELSE IF fragments[local_parity_idx + 1] = None THEN Ok(None)
        ELSE IF Cardinality(available) # group_size - 1 THEN Ok(None)
        ELSE IF \E i \in used : Len(fragments[i + 1]) < fragment_size THEN Raise("IndexError")
        ELSE Ok(List([b \in 1..fragment_size |->
                        LET RECURSIVE XorOver(_)
                            XorOver(S) ==
                                IF S = {} THEN 0
                                ELSE LET i == CHOOSE i \in S : TRUE
                                     IN  Xor(fragments[i + 1][b], XorOver(S \ {i}))
                        IN  XorOver(used)],
                     fragment_size))

\* EncoderLRC.local_repair: val is the repaired fragment, or None
EncoderLRC_local_repair(k, group_size, fragment_size, fragments, missing_index) ==
    LET group_id  == missing_index \div group_size
        start     == group_id * group_size
        end       == Min(start + group_size, k)
        local_parity_idx == k + group_id
        available == {i \in start..(end - 1) :
                        fragments[i + 1] # None /\ i # missing_index}
        used      == {local_parity_idx} \cup available
    IN  IF local_parity_idx >= Len(fragments) \/ end > Len(fragments) THEN Raise("IndexError")
        ELSE IF fragments[local_parity_idx + 1] = None THEN Ok(None)
        ELSE IF Cardinality(available) # end - start - 1 THEN Ok(None)
        ELSE IF \E i \in used : Len(fragments[i + 1]) < fragment_size THEN Raise("IndexError")
        ELSE Ok(List([b \in 1..fragment_size |->
                        LET RECURSIVE XorOver(_)
                            XorOver(S) ==
                                IF S = {} THEN 0
                                ELSE LET i == CHOOSE i \in S : TRUE
                                     IN  Xor(fragments[i + 1][b], XorOver(S \ {i}))
                        IN  XorOver(used)],
                     fragment_size))

\* global_repair: the indices range(global_start, global_end) of the fragments
\* it reads as global parity
global_parity_indices(k, group_size, local_parity, global_parity) ==
    (k + num_groups(k, group_size) * local_parity)
        ..(total_fragments(k, group_size, local_parity, global_parity) - 1)

\* global_repair: the erase positions it passes to self.rsc.decode, every byte
\* of each missing data fragment and of each missing fragment read as global
\* parity, the latter placed after the k data fragments
global_repair_erasures(k, group_size, local_parity, global_parity, fragment_size, fragments) ==
    LET global_start == k + num_groups(k, group_size) * local_parity
        data_erasures   == {i \in 0..(k - 1) : fragments[i + 1] = None}
        global_erasures ==
            {i - global_start :
               i \in {j \in global_parity_indices(k, group_size, local_parity, global_parity) :
                        fragments[j + 1] = None}}
    IN  UNION {FragmentBytes(pos, fragment_size) : pos \in data_erasures}
        \cup UNION {FragmentBytes(k + pos, fragment_size) : pos \in global_erasures}

\* global_repair after self.rsc.decode: the decoded bytes cut into k fragments
\* and joined again, or the available data when decode raised
GlobalOutcome(decoded, k, fragment_size, simple) ==
    IF decoded.exc = ""
    THEN Ok(StripZeros(Join(List([i \in 1..k |->
               Slice(decoded.val, (i - 1) * fragment_size, i * fragment_size)], k))))
    ELSE Ok(simple)

\* EncoderLRC.global_repair with the codec left by the last encode
EncoderLRC_global_repair(k, group_size, local_parity, global_parity, fragment_size, nsym, fragments) ==
    LET global_start == k + num_groups(k, group_size) * local_parity
        global_end   == total_fragments(k, group_size, local_parity, global_parity)
        data_erasures   == {i \in 0..(k - 1) : fragments[i + 1] = None}
        global_erasures == {i - global_start : i \in {j \in global_start..(global_end - 1) :
                                                        fragments[j + 1] = None}}
        available_data ==
            List([i \in 1..k |->
                    IF fragments[i] # None THEN fragments[i] ELSE Zeros(fragment_size)], k)
        available_global ==
            List([i \in 1..(global_end - global_start) |->
                    IF fragments[global_start + i] # None
                    THEN fragments[global_start + i] ELSE Zeros(fragment_size)],
                 global_end - global_start)
        simple == StripZeros(Join(available_data))
        data_codeword == Join(available_data \o available_global)
        erasures == global_repair_erasures(k, group_size, local_parity, global_parity,
                                           fragment_size, fragments)
    IN  IF global_end > Len(fragments) \/ k > Len(fragments) THEN Raise("IndexError")
        ELSE IF data_erasures = {} /\ global_erasures = {} THEN Ok(simple)
        ELSE GlobalOutcome(RSCodec_decode(nsym, data_codeword, erasures), k, fragment_size,
                           simple)

(***************************************************************************)
(* Cluster and Simulator._reconstruct_lrc                                  *)
(***************************************************************************)
\* Cluster.__init__: num_nodes nodes, alive and empty
Cluster(n) == List([i \in 1..n |-> [fragment |-> None, is_alive |-> TRUE]], n)

\* distribute_fragments as it would be with the length check after the loop:
\* the nodes there are store their fragments before the error is raised
distribute_fragments_CheckLast(nodes, fragments) ==
    [exc |-> IF Len(fragments) > Len(nodes) THEN "ValueError" ELSE "",
     nodes |-> List([i \in 1..Len(nodes) |->
                       IF i <= Len(fragments)
                       THEN [nodes[i] EXCEPT !.fragment = fragments[i]]
                       ELSE nodes[i]], Len(nodes))]

\* Cluster.distribute_fragments: node i stores fragments[i]; the caller sees
\* ValueError, and no node changes, when there are more fragments than nodes
distribute_fragments(nodes, fragments) ==
    IF Len(fragments) > Len(nodes) THEN [exc |-> "ValueError", nodes |-> nodes]
    ELSE [exc |-> "",
          nodes |-> List([i \in 1..Len(nodes) |->
                            IF i <= Len(fragments)
                            THEN [nodes[i] EXCEPT !.fragment = fragments[i]]
                            ELSE nodes[i]], Len(nodes))]

\* Cluster.fail_nodes_by_indices: every index in range is marked dead
fail_nodes_by_indices(nodes, indices) ==
    List([i \in 1..Len(nodes) |->
            IF (i - 1) \in indices THEN [nodes[i] EXCEPT !.is_alive = FALSE] ELSE nodes[i]],
         Len(nodes))

\* Cluster.fail_nodes_by_indices: the list it returns, one entry per index of
\* the argument that is in range, in the argument's order
failed_ids(nodes, indices) ==
    LET InRange(idx) == 0 <= idx /\ idx < Len(nodes)
    IN  SelectSeq(indices, InRange)

\* the elements of a list
Range(seq) == {seq[i] : i \in 1..Len(seq)}

\* random.sample(population, c): every list of c distinct elements
Samples(population, c) ==
    {smp \in [1..c -> population] : \A i, j \in 1..c : i # j => smp[i] # smp[j]}

\* fail_nodes as it would be if it sampled among all nodes, dead ones included
fail_nodes_AnyNode(nodes, failure_count_arg) ==
    LET available_nodes == 0..(Len(nodes) - 1)
        c == IF failure_count_arg > Cardinality(available_nodes)
             THEN Cardinality(available_nodes) ELSE failure_count_arg
    IN  IF c < 0 THEN {[exc |-> "ValueError", nodes |-> nodes, ret |-> <<>>]}
        ELSE {[exc |-> "", nodes |-> fail_nodes_by_indices(nodes, Range(smp)), ret |-> smp] :
                smp \in Samples(available_nodes, c)}

\* Cluster.fail_nodes: the outcomes of one call. The count is cut down to the
\* number of alive nodes; random.sample raises ValueError on a negative count
fail_nodes(nodes, failure_count_arg) ==
    LET available_nodes == {i \in 0..(Len(nodes) - 1) : nodes[i + 1].is_alive}
        c == IF failure_count_arg > Cardinality(available_nodes)
             THEN Cardinality(available_nodes) ELSE failure_count_arg
    IN  IF c < 0 THEN {[exc |-> "ValueError", nodes |-> nodes, ret |-> <<>>]}
        ELSE {[exc |-> "", nodes |-> fail_nodes_by_indices(nodes, Range(smp)), ret |-> smp] :
                smp \in Samples(available_nodes, c)}

\* reset_all_nodes as it would be if recovering a node emptied it
reset_all_nodes_Clear(nodes) ==
    List([i \in 1..Len(nodes) |-> [fragment |-> None, is_alive |-> TRUE]], Len(nodes))

\* _simulate_failures_lrc as it would be if the first failed node were drawn
\* from all the nodes, not from the data nodes
simulate_failures_lrc_AnyNode(nodes, k, count) ==
    UNION {LET remaining_candidates == (0..(Len(nodes) - 1)) \ {data_failure}
           IN  IF count - 1 < 0 \/ count - 1 > Cardinality(remaining_candidates)
               THEN {[exc |-> "ValueError", nodes |-> nodes, failed_nodes |-> <<>>]}
               ELSE {[exc |-> "",
                      nodes |-> fail_nodes_by_indices(nodes, {data_failure} \cup Range(smp)),
                      failed_nodes |-> <<data_failure>> \o smp] :
                        smp \in Samples(remaining_candidates, count - 1)} :
           data_failure \in 0..(Len(nodes) - 1)}

\* Simulator._simulate_failures_lrc: the outcomes of one call. One data node
\* and failure_count - 1 other nodes are failed by index; random.sample raises
\* ValueError when failure_count - 1 is negative or exceeds the other nodes
simulate_failures_lrc(nodes, k, count) ==
    UNION {LET remaining_candidates == (0..(Len(nodes) - 1)) \ {data_failure}
           IN  IF count - 1 < 0 \/ count - 1 > Cardinality(remaining_candidates)
               THEN {[exc |-> "ValueError", nodes |-> nodes, failed_nodes |-> <<>>]}
               ELSE {[exc |-> "",
                      nodes |-> fail_nodes_by_indices(nodes, {data_failure} \cup Range(smp)),
                      failed_nodes |-> <<data_failure>> \o smp] :
                        smp \in Samples(remaining_candidates, count - 1)} :
           data_failure \in 0..(k - 1)}

\* reset_all_nodes as it would be if it recovered no node
reset_all_nodes_Skip(nodes) == nodes

\* Cluster.reset_all_nodes: node.recover() on every node
reset_all_nodes(nodes) ==
    List([i \in 1..Len(nodes) |-> [nodes[i] EXCEPT !.is_alive = TRUE]], Len(nodes))

\* the ordered fragment list the simulator builds: None for a dead node
available_fragments(nodes) ==
    List([i \in 1..Len(nodes) |-> IF nodes[i].is_alive THEN nodes[i].fragment ELSE None],
         Len(nodes))

failed_positions(nodes) == {i \in 0..(Len(nodes) - 1) : ~nodes[i + 1].is_alive}

\* the except clause of a reconstruction: None when the call raised
OrNone(outcome) == IF outcome.exc # "" THEN None ELSE outcome.val

\* Simulator._reconstruct_rs: decode of the ordered fragment list; any
\* exception of decode gives recovered_data None
Simulator_reconstruct_rs(nodes, k, r, nsym) ==
    LET available   == available_fragments(nodes)
        alive_count == Len(nodes) - Cardinality(failed_positions(nodes))
    IN  [recovered_data |-> OrNone(EncoderRS_decode(k, r, nsym, available)),
         nodes_contacted |-> alive_count,
         fragments_accessed |-> k]

\* collect_lrc_metrics as it would be if the local path were costed like the
\* global one
collect_lrc_metrics_GlobalCost(original_size, k, group_size, local_parity, global_parity, fragment_size_set, fragments_used, nodes_contacted, local_repair_used, global_repair_used) ==
    LET fragment_size == IF fragment_size_set # 0 THEN fragment_size_set
                         ELSE (original_size + k - 1) \div k
    IN  [total_fragments |-> total_fragments(k, group_size, local_parity, global_parity),
         data_fragments |-> k,
         parity_fragments |-> num_groups(k, group_size) * local_parity + global_parity,
         fragments_used |-> fragments_used,
         failed_fragments |->
             total_fragments(k, group_size, local_parity, global_parity) - fragments_used,
         fragments_accessed_bytes |-> fragments_used * fragment_size,
         xor_operations |-> k * fragment_size * 8,
         multiplication_operations |-> k * fragment_size * 8,
         nodes_contacted |-> nodes_contacted,
         fragments_accessed |-> fragments_used,
         local_repair_used |-> local_repair_used,
         global_repair_used |-> global_repair_used]

\* MetricsCollector.collect_lrc_metrics: the record it builds, without the
\* timings and the success flags
collect_lrc_metrics(original_size, k, group_size, local_parity, global_parity, fragment_size_set, fragments_used, nodes_contacted, local_repair_used, global_repair_used) ==
    LET fragment_size == IF fragment_size_set # 0 THEN fragment_size_set
                         ELSE (original_size + k - 1) \div k
    IN  [total_fragments |-> total_fragments(k, group_size, local_parity, global_parity),
         data_fragments |-> k,
         parity_fragments |-> num_groups(k, group_size) * local_parity + global_parity,
         fragments_used |-> fragments_used,
         failed_fragments |->
             total_fragments(k, group_size, local_parity, global_parity) - fragments_used,
         fragments_accessed_bytes |-> fragments_used * fragment_size,
         xor_operations |-> IF local_repair_used THEN (group_size - 1) * fragment_size * 8
                            ELSE k * fragment_size * 8,
         multiplication_operations |-> IF local_repair_used THEN 0
                                       ELSE k * fragment_size * 8,
         nodes_contacted |-> nodes_contacted,
         fragments_accessed |-> fragments_used,
         local_repair_used |-> local_repair_used,
         global_repair_used |-> global_repair_used]

\* the local count as it would be if it were group_size whatever the group
local_fragments_accessed_GroupSize(k, group_size, failed_pos) == group_size

\* _reconstruct_lrc on the local path: surviving_data + 1, the surviving data
\* fragments of the failed fragment's group and its local parity
local_fragments_accessed(k, group_size, failed_pos) ==
    LET group_start   == (failed_pos \div group_size) * group_size
        group_end     == Min(group_start + group_size, k)
        surviving_data == group_end - group_start - 1
    IN  surviving_data + 1

\* Simulator._reconstruct_lrc: the strategy is chosen from the dead nodes, then
\* the repair runs; any exception of the repair gives recovered_data None
Simulator_reconstruct_lrc(nodes, k, group_size, local_parity, global_parity, fragment_size, nsym) ==
    LET available   == available_fragments(nodes)
        failed      == failed_positions(nodes)
        alive_count == Len(nodes) - Cardinality(failed)
        failed_pos  == CHOOSE i \in failed : TRUE
        group_id    == failed_pos \div group_size
        group_start == group_id * group_size
        group_end   == Min(group_start + group_size, k)
        local_parity_idx == k + group_id
        single_data == Cardinality(failed) = 1 /\ failed_pos < k
        local_repair_used ==
            /\ single_data
            /\ local_parity_idx < Len(available)
            /\ available[local_parity_idx + 1] # None
        repair_strategy ==
            IF Cardinality(failed) = 1
            THEN IF failed_pos < k
                 THEN IF local_repair_used THEN "LOCAL" ELSE "GLOBAL (parity unavailable)"
                 ELSE "GLOBAL (parity fragment failed)"
            ELSE IF Cardinality(failed) > 1 THEN "GLOBAL (multiple failures)"
            ELSE "Default"
        fragments_accessed ==
            IF failed = {} THEN alive_count
            ELSE IF local_repair_used THEN local_fragments_accessed(k, group_size, failed_pos)
            ELSE k + global_parity
        repaired_fragment ==
            EncoderLRC_local_repair(k, group_size, fragment_size, available, failed_pos)
        data_fragments ==
            List([i \in 1..k |->
                    IF i - 1 = failed_pos THEN repaired_fragment.val ELSE available[i]], k)
        global == EncoderLRC_global_repair(k, group_size, local_parity, global_parity,
                                           fragment_size, nsym, available)
        recovered_data ==
            IF local_repair_used
            THEN IF repaired_fragment.exc # "" \/ repaired_fragment.val = None THEN None
                 ELSE StripZeros(Join(data_fragments))
            ELSE OrNone(global)
    IN  [recovered_data |-> recovered_data,
         nodes_contacted |-> alive_count,
         fragments_accessed |-> fragments_accessed,
         local_repair_used |-> local_repair_used,
         repair_strategy |-> repair_strategy]

(***************************************************************************)
(* State                                                                   *)
(***************************************************************************)
VARIABLES
    data,           \* the payload bytes
    rs_k, rs_r,     \* EncoderRS.k, EncoderRS.r
    rs_pc,          \* "new", "encoded", "erased", "decoded", "idle"
    rs_nsym,        \* EncoderRS.nsym (0 before the first encode)
    rs_codeword,    \* the codeword encode cut into fragments
    rs_fragments,   \* the list encode returned
    rs_available,   \* the list handed to decode: None where a fragment is lost
    rs_result,      \* what decode returned or raised, with the codeword it rebuilt
    lrc_k, lrc_group_size, lrc_local_parity, lrc_global_parity,  \* EncoderLRC's config
    lrc_pc,         \* "new", "encoded", "error", "failed", "repaired", "reconstructed", "idle"
    lrc_fragment_size,  \* EncoderLRC.fragment_size (0 before the first encode)
    lrc_nsym,       \* nsym of EncoderLRC.rsc (0 before the first encode)
    lrc_fragments,  \* the list encode returned
    nodes,          \* Cluster.nodes: each [fragment, is_alive]
    lrc_repaired,   \* the last local_repair call: [index, exc, val]
    lrc_result,     \* what _reconstruct_lrc returned
    cl_call,        \* the last Cluster method call: [op, arg, pre, exc, ret]
    num_nodes,      \* config NUM_NODES
    failure_count,  \* config FAILURE_COUNT
    run_pc,         \* the position of ScenarioRunner.run / Simulator.run_simulation
    run_steps,      \* the steps the run has performed, in order
    run_exc,        \* the exception that ended the run ("" when none)
    rs_run_result,  \* what _reconstruct_rs returned to run_simulation
    lrc_failed_nodes, \* what _simulate_failures_lrc returned
    lrc_metrics     \* MetricsCollector.lrc_metrics, without its timings

rs_vars == <<rs_k, rs_r, rs_pc, rs_nsym, rs_codeword, rs_fragments, rs_available, rs_result>>

lrc_config == <<lrc_k, lrc_group_size, lrc_local_parity, lrc_global_parity>>

lrc_vars == <<lrc_config, lrc_pc, lrc_fragment_size, lrc_nsym, lrc_fragments, nodes,
              lrc_repaired, lrc_result>>

run_vars == <<num_nodes, failure_count, run_pc, run_steps, run_exc, rs_run_result,
              lrc_failed_nodes, lrc_metrics>>

vars == <<data, rs_vars, lrc_vars, cl_call, run_vars>>

NoResult == [exc |-> "pending", val |-> <<>>, codeword |-> <<>>, erasures |-> <<>>]

NoRepair == [index |-> -1, exc |-> "pending", val |-> <<>>]

NoReconstruction ==
    [recovered_data |-> None, nodes_contacted |-> 0, fragments_accessed |-> 0,
     local_repair_used |-> FALSE, repair_strategy |-> "pending"]

\* the LRC side of a run that only exercises EncoderRS
IdleLRC ==
    /\ lrc_k = 1 /\ lrc_group_size = 1 /\ lrc_local_parity = 1 /\ lrc_global_parity = 1
    /\ lrc_pc = "idle"
    /\ lrc_fragment_size = 0
    /\ lrc_nsym = 0
    /\ lrc_fragments = <<>>
    /\ nodes = <<>>
    /\ lrc_repaired = NoRepair
    /\ lrc_result = NoReconstruction

\* no Cluster method has been called on its own
NoCall == [op |-> "none", arg |-> <<>>, pre |-> <<>>, exc |-> "", ret |-> <<>>]

\* no run of the simulation is in progress
\* MetricsCollector.__init__: no LRC metrics yet
NoMetrics == <<>>

IdleRun ==
    /\ cl_call = NoCall
    /\ num_nodes = 0
    /\ failure_count = 0
    /\ run_pc = "idle"
    /\ run_steps = <<>>
    /\ run_exc = ""
    /\ rs_run_result = <<>>
    /\ lrc_failed_nodes = <<>>
    /\ lrc_metrics = NoMetrics

\* the RS side of a run that only exercises the LRC path
IdleRS ==
    /\ rs_k = 1 /\ rs_r = 1
    /\ rs_pc = "idle"
    /\ rs_nsym = 0
    /\ rs_codeword = <<>>
    /\ rs_fragments = <<>>
    /\ rs_available = <<>>
    /\ rs_result = NoResult

(***************************************************************************)
(* EncoderRS on its own: encode, lose fragments, decode                    *)
(***************************************************************************)
InitRS ==
    /\ data \in Payloads
    /\ rs_k \in 1..MaxK
    /\ rs_r \in 1..MaxR
    /\ rs_pc = "new"
    /\ rs_nsym = 0
    /\ rs_codeword = <<>>
    /\ rs_fragments = <<>>
    /\ rs_available = <<>>
    /\ rs_result = NoResult
    /\ IdleLRC
    /\ IdleRun

\* rs_encoder.encode(data)
RSEncode ==
    /\ rs_pc = "new"
    /\ LET e == EncoderRS_encode(rs_k, rs_r, data)
       IN  /\ rs_nsym' = e.nsym
           /\ rs_codeword' = e.codeword
           /\ rs_fragments' = e.fragments
           /\ rs_available' = e.fragments
    /\ rs_pc' = "encoded"
    /\ UNCHANGED <<cl_call, run_vars, data, rs_k, rs_r, rs_result, lrc_vars>>

\* the fragments with index in lost become unavailable (None in the list)
RSErase(lost) ==
    /\ rs_pc = "encoded"
    /\ rs_available' = List([i \in 1..Len(rs_fragments) |->
                               IF (i - 1) \in lost THEN None ELSE rs_fragments[i]],
                            Len(rs_fragments))
    /\ rs_pc' = "erased"
    /\ UNCHANGED <<cl_call, run_vars, data, rs_k, rs_r, rs_nsym, rs_codeword, rs_fragments, rs_result, lrc_vars>>

\* rs_encoder.decode(available_fragments)
RSDecode ==
    /\ rs_pc \in {"encoded", "erased"}
    /\ rs_result' = EncoderRS_decode(rs_k, rs_r, rs_nsym, rs_available)
    /\ rs_pc' = "decoded"
    /\ UNCHANGED <<cl_call, run_vars, data, rs_k, rs_r, rs_nsym, rs_codeword, rs_fragments, rs_available, lrc_vars>>

NextRS ==
    \/ RSEncode
    \/ \E lost \in (SUBSET (0..(rs_k + rs_r - 1))) \ {{}} : RSErase(lost)
    \/ RSDecode

SpecRS == InitRS /\ [][NextRS]_vars

(***************************************************************************)
(* The LRC phase on a cluster: encode and distribute, fail nodes, repair   *)
(***************************************************************************)
\* the number of fragments EncoderLRC.encode returns
EncodedCount(k, group_size, global_parity) == k + num_groups(k, group_size) + global_parity

InitLRC ==
    /\ data \in Payloads
    /\ lrc_k \in 1..MaxK
    /\ lrc_group_size \in 1..MaxGroupSize
    /\ lrc_local_parity \in 1..MaxLocalParity
    /\ lrc_global_parity \in 1..MaxGlobalParity
    /\ \E n \in 1..(MaxK + MaxK + MaxGlobalParity + MaxSpare) :
          /\ n >= EncodedCount(lrc_k, lrc_group_size, lrc_global_parity) - 1
          /\ n <= EncodedCount(lrc_k, lrc_group_size, lrc_global_parity) + MaxSpare
          /\ nodes = Cluster(n)
    /\ lrc_pc = "new"
    /\ lrc_fragment_size = 0
    /\ lrc_nsym = 0
    /\ lrc_fragments = <<>>
    /\ lrc_repaired = NoRepair
    /\ lrc_result = NoReconstruction
    /\ IdleRS
    /\ IdleRun

\* Simulator._encode_data_lrc: lrc_encoder.encode, then distribute_fragments
LRCEncode ==
    /\ lrc_pc = "new"
    /\ LET e == EncoderLRC_encode(lrc_k, lrc_group_size, lrc_global_parity, data)
           d == distribute_fragments(nodes, e.fragments)
       IN  /\ lrc_fragment_size' = e.fragment_size
           /\ lrc_nsym' = e.nsym
           /\ lrc_fragments' = e.fragments
           /\ nodes' = IF e.exc = "" THEN d.nodes ELSE nodes
           /\ lrc_pc' = IF e.exc = "" /\ d.exc = "" THEN "encoded" ELSE "error"
    /\ UNCHANGED <<cl_call, run_vars, data, rs_vars, lrc_config, lrc_repaired, lrc_result>>

\* cluster.fail_nodes_by_indices(indices)
LRCFail(indices) ==
    /\ lrc_pc = "encoded"
    /\ nodes' = fail_nodes_by_indices(nodes, indices)
    /\ lrc_pc' = "failed"
    /\ UNCHANGED <<cl_call, run_vars, data, rs_vars, lrc_config, lrc_fragment_size, lrc_nsym, lrc_fragments,
                   lrc_repaired, lrc_result>>

\* lrc_encoder.local_repair(available_fragments, m)
LRCLocalRepair(m) ==
    /\ lrc_pc = "failed"
    /\ LET r == EncoderLRC_local_repair(lrc_k, lrc_group_size, lrc_fragment_size,
                                        available_fragments(nodes), m)
       IN  lrc_repaired' = [index |-> m, exc |-> r.exc, val |-> r.val]
    /\ lrc_pc' = "repaired"
    /\ UNCHANGED <<cl_call, run_vars, data, rs_vars, lrc_config, lrc_fragment_size, lrc_nsym, lrc_fragments,
                   nodes, lrc_result>>

\* Simulator._reconstruct_lrc
LRCReconstruct ==
    /\ lrc_pc \in {"encoded", "failed"}
    /\ lrc_result' = Simulator_reconstruct_lrc(nodes, lrc_k, lrc_group_size,
                                               lrc_local_parity, lrc_global_parity,
                                               lrc_fragment_size, lrc_nsym)
    /\ lrc_pc' = "reconstructed"
    /\ UNCHANGED <<cl_call, run_vars, data, rs_vars, lrc_config, lrc_fragment_size, lrc_nsym, lrc_fragments,
                   nodes, lrc_repaired>>

NextLRC ==
    \/ LRCEncode
    \/ \E indices \in SubsetsUpTo(0..(Len(nodes) - 1), MaxFail) \ {{}} : LRCFail(indices)
    \/ LRCReconstruct

SpecLRC == InitLRC /\ [][NextLRC]_vars

(***************************************************************************)
(* EncoderLRC.encode on its own, over every config of InitLRC              *)
(***************************************************************************)
NextEncode == LRCEncode

SpecEncode == InitLRC /\ [][NextEncode]_vars

(***************************************************************************)
(* EncoderLRC.local_repair on its own, under the global parity count of    *)
(* config/constants.py and one node per fragment that encode returns       *)
(***************************************************************************)
InitLocal ==
    /\ data \in Payloads
    /\ lrc_k \in 1..MaxK
    /\ lrc_group_size \in 1..MaxGroupSize
    /\ lrc_local_parity \in 1..MaxLocalParity
    /\ lrc_global_parity = LRC_GLOBAL_PARITY
    /\ nodes = Cluster(EncodedCount(lrc_k, lrc_group_size, lrc_global_parity))
    /\ lrc_pc = "new"
    /\ lrc_fragment_size = 0
    /\ lrc_nsym = 0
    /\ lrc_fragments = <<>>
    /\ lrc_repaired = NoRepair
    /\ lrc_result = NoReconstruction
    /\ IdleRS
    /\ IdleRun

NextLocal ==
    \/ LRCEncode
    \/ \E indices \in SubsetsUpTo(0..(Len(nodes) - 1), MaxFail) \ {{}} : LRCFail(indices)
    \/ \E m \in 0..(lrc_k - 1) : LRCLocalRepair(m)

SpecLocal == InitLocal /\ [][NextLocal]_vars

(***************************************************************************)
(* One encoder object used for several payloads: a second encode between   *)
(* the encode of a payload and the decode of its fragments                 *)
(***************************************************************************)
\* rs_encoder.encode(other): _init_rs replaces self.nsym and self.rsc; the
\* fragments of the first payload stay with the caller
RSEncodeOther(other) ==
    /\ rs_pc \in {"encoded", "erased"}
    /\ rs_nsym' = EncoderRS_encode(rs_k, rs_r, other).nsym
    /\ UNCHANGED <<cl_call, run_vars, data, rs_k, rs_r, rs_pc, rs_codeword, rs_fragments,
                   rs_available, rs_result, lrc_vars>>

\* lrc_encoder.encode(other): replaces self.fragment_size and self.rsc; the
\* fragments of the first payload stay on the nodes
LRCEncodeOther(other) ==
    /\ lrc_pc \in {"encoded", "failed"}
    /\ LET e == EncoderLRC_encode(lrc_k, lrc_group_size, lrc_global_parity, other)
       IN  /\ lrc_fragment_size' = e.fragment_size
           /\ lrc_nsym' = e.nsym
    /\ UNCHANGED <<cl_call, run_vars, data, rs_vars, lrc_config, lrc_pc, lrc_fragments, nodes,
                   lrc_repaired, lrc_result>>

InitReuse == InitRS \/ InitLocal

NextReuse ==
    \/ NextRS
    \/ NextLocal
    \/ \E other \in Payloads : RSEncodeOther(other)
    \/ \E other \in Payloads : LRCEncodeOther(other)

SpecReuse == InitReuse /\ [][NextReuse]_vars

(***************************************************************************)
(* One run: ScenarioRunner.run validates the config, then                  *)
(* Simulator.run_simulation runs the RS phase and the LRC phase            *)
(***************************************************************************)
\* the default test_data of run_simulation, cut down to three bytes
TEST_DATA == <<1, 0, 1>>

\* scenario configs, cut down from config/scenarios.py over DEFAULT_CONFIG:
\* the default shape, a last group smaller than the others, two local
\* parities per group, groups of one, an RS code wider than the LRC code, and
\* the latter with two local parities per group
Scenarios ==
    {[RS_K |-> 2, RS_R |-> 1, LRC_K |-> 2, LRC_GROUP_SIZE |-> 2,
      LRC_LOCAL_PARITY |-> 1, LRC_GLOBAL_PARITY |-> 1],
     [RS_K |-> 1, RS_R |-> 1, LRC_K |-> 3, LRC_GROUP_SIZE |-> 2,
      LRC_LOCAL_PARITY |-> 1, LRC_GLOBAL_PARITY |-> 1],
     [RS_K |-> 3, RS_R |-> 2, LRC_K |-> 2, LRC_GROUP_SIZE |-> 2,
      LRC_LOCAL_PARITY |-> 2, LRC_GLOBAL_PARITY |-> 1],
     [RS_K |-> 2, RS_R |-> 2, LRC_K |-> 2, LRC_GROUP_SIZE |-> 1,
      LRC_LOCAL_PARITY |-> 1, LRC_GLOBAL_PARITY |-> 2],
     [RS_K |-> 3, RS_R |-> 1, LRC_K |-> 1, LRC_GROUP_SIZE |-> 1,
      LRC_LOCAL_PARITY |-> 1, LRC_GLOBAL_PARITY |-> 1],
     [RS_K |-> 3, RS_R |-> 2, LRC_K |-> 1, LRC_GROUP_SIZE |-> 1,
      LRC_LOCAL_PARITY |-> 2, LRC_GLOBAL_PARITY |-> 1]}

\* ScenarioRunner.validate_config: TRUE when it raises ValueError
validate_config(k, group_size, local_parity, global_parity, n) ==
    LET groups == k \div group_size
        total  == k + (groups * local_parity) + global_parity
    IN  total > n

\* the run's variables that no step of a run uses
run_frame == <<rs_pc, rs_codeword, rs_available, rs_result, lrc_pc, lrc_repaired, cl_call>>

\* the config of a run
run_config == <<data, rs_k, rs_r, lrc_config, num_nodes, failure_count>>

InitRun ==
    /\ data = TEST_DATA
    /\ \E c \in Scenarios :
          /\ rs_k = c.RS_K /\ rs_r = c.RS_R
          /\ lrc_k = c.LRC_K /\ lrc_group_size = c.LRC_GROUP_SIZE
          /\ lrc_local_parity = c.LRC_LOCAL_PARITY
          /\ lrc_global_parity = c.LRC_GLOBAL_PARITY
    /\ num_nodes \in 1..MaxRunNodes
    /\ failure_count \in 0..MaxRunFail
    /\ run_pc = "start"
    /\ run_steps = <<>>
    /\ run_exc = ""
    /\ rs_run_result = <<>>
    /\ lrc_failed_nodes = <<>>
    /\ lrc_metrics = NoMetrics
    /\ nodes = <<>>
    /\ cl_call = NoCall
    /\ rs_pc = "idle" /\ rs_nsym = 0 /\ rs_codeword = <<>> /\ rs_fragments = <<>>
    /\ rs_available = <<>> /\ rs_result = NoResult
    /\ lrc_pc = "idle" /\ lrc_fragment_size = 0 /\ lrc_nsym = 0 /\ lrc_fragments = <<>>
    /\ lrc_repaired = NoRepair /\ lrc_result = NoReconstruction

\* ScenarioRunner.run: self.validate_config(config=config)
RunValidate ==
    /\ run_pc = "start"
    /\ run_steps' = Append(run_steps, "validate_config")
    /\ IF validate_config(lrc_k, lrc_group_size, lrc_local_parity, lrc_global_parity,
                          num_nodes)
       THEN run_pc' = "rejected" /\ run_exc' = "ValueError"
       ELSE run_pc' = "validated" /\ run_exc' = run_exc
    /\ UNCHANGED <<run_config, run_frame, lrc_metrics, nodes, rs_nsym, rs_fragments, lrc_fragment_size,
                   lrc_nsym, lrc_fragments, lrc_result, rs_run_result, lrc_failed_nodes>>

\* Simulator._initialize_components, the first step of run_simulation
RunInitialize ==
    /\ run_pc = "validated"
    /\ nodes' = Cluster(num_nodes)
    /\ run_steps' = Append(run_steps, "initialize")
    /\ run_pc' = "initialized"
    /\ UNCHANGED <<run_config, run_frame, lrc_metrics, run_exc, rs_nsym, rs_fragments, lrc_fragment_size,
                   lrc_nsym, lrc_fragments, lrc_result, rs_run_result, lrc_failed_nodes>>

\* Simulator._encode_data_rs: rs_encoder.encode, then distribute_fragments
RunEncodeRS ==
    /\ run_pc = "initialized"
    /\ LET e == EncoderRS_encode(rs_k, rs_r, data)
           d == distribute_fragments(nodes, e.fragments)
       IN  /\ rs_nsym' = e.nsym
           /\ rs_fragments' = e.fragments
           /\ nodes' = d.nodes
           /\ IF d.exc # ""
              THEN /\ run_steps' = Append(run_steps, "rs_encode")
                   /\ run_pc' = "aborted" /\ run_exc' = d.exc
              ELSE /\ run_steps' = run_steps \o <<"rs_encode", "rs_distribute">>
                   /\ run_pc' = "rs_encoded" /\ run_exc' = run_exc
    /\ UNCHANGED <<run_config, run_frame, lrc_metrics, lrc_fragment_size, lrc_nsym, lrc_fragments,
                   lrc_result, rs_run_result, lrc_failed_nodes>>

\* Simulator._simulate_failures_rs: cluster.fail_nodes(self.failure_count)
RunFailRS ==
    /\ run_pc = "rs_encoded"
    /\ \E o \in fail_nodes(nodes, failure_count) :
          /\ nodes' = o.nodes
          /\ IF o.exc # ""
             THEN run_steps' = run_steps /\ run_pc' = "aborted" /\ run_exc' = o.exc
             ELSE /\ run_steps' = Append(run_steps, "rs_fail")
                  /\ run_pc' = "rs_failed" /\ run_exc' = run_exc
    /\ UNCHANGED <<run_config, run_frame, lrc_metrics, rs_nsym, rs_fragments, lrc_fragment_size,
                   lrc_nsym, lrc_fragments, lrc_result, rs_run_result, lrc_failed_nodes>>

\* Simulator._reconstruct_rs
RunReconstructRS ==
    /\ run_pc = "rs_failed"
    /\ rs_run_result' = Simulator_reconstruct_rs(nodes, rs_k, rs_r, rs_nsym)
    /\ run_steps' = Append(run_steps, "rs_decode")
    /\ run_pc' = "rs_reconstructed"
    /\ UNCHANGED <<run_config, run_frame, lrc_metrics, run_exc, nodes, rs_nsym, rs_fragments,
                   lrc_fragment_size, lrc_nsym, lrc_fragments, lrc_result, lrc_failed_nodes>>

\* the reset as it would be if it were placed before the RS decode
RunReset_BeforeDecode ==
    /\ run_pc = "rs_failed"
    /\ nodes' = reset_all_nodes(nodes)
    /\ run_steps' = Append(run_steps, "reset")
    /\ run_pc' = "reset"
    /\ UNCHANGED <<run_config, run_frame, lrc_metrics, run_exc, rs_nsym, rs_fragments, lrc_fragment_size,
                   lrc_nsym, lrc_fragments, lrc_result, rs_run_result, lrc_failed_nodes>>

\* run_simulation: self.cluster.reset_all_nodes()
RunReset ==
    /\ run_pc = "rs_reconstructed"
    /\ nodes' = reset_all_nodes(nodes)
    /\ run_steps' = Append(run_steps, "reset")
    /\ run_pc' = "reset"
    /\ UNCHANGED <<run_config, run_frame, lrc_metrics, run_exc, rs_nsym, rs_fragments, lrc_fragment_size,
                   lrc_nsym, lrc_fragments, lrc_result, rs_run_result, lrc_failed_nodes>>

\* Simulator._encode_data_lrc: lrc_encoder.encode, then distribute_fragments
RunEncodeLRC ==
    /\ run_pc = "reset"
    /\ LET e == EncoderLRC_encode(lrc_k, lrc_group_size, lrc_global_parity, data)
           d == distribute_fragments(nodes, e.fragments)
       IN  /\ lrc_fragment_size' = e.fragment_size
           /\ lrc_nsym' = e.nsym
           /\ lrc_fragments' = e.fragments
           /\ nodes' = d.nodes
           /\ IF d.exc # ""
              THEN /\ run_steps' = Append(run_steps, "lrc_encode")
                   /\ run_pc' = "aborted" /\ run_exc' = d.exc
              ELSE /\ run_steps' = run_steps \o <<"lrc_encode", "lrc_distribute">>
                   /\ run_pc' = "lrc_encoded" /\ run_exc' = run_exc
    /\ UNCHANGED <<run_config, run_frame, lrc_metrics, rs_nsym, rs_fragments, lrc_result, rs_run_result,
                   lrc_failed_nodes>>

\* Simulator._simulate_failures_lrc
RunFailLRC ==
    /\ run_pc = "lrc_encoded"
    /\ \E o \in simulate_failures_lrc(nodes, lrc_k, failure_count) :
          /\ nodes' = o.nodes
          /\ lrc_failed_nodes' = o.failed_nodes
          /\ IF o.exc # ""
             THEN run_steps' = run_steps /\ run_pc' = "aborted" /\ run_exc' = o.exc
             ELSE /\ run_steps' = Append(run_steps, "lrc_fail")
                  /\ run_pc' = "lrc_failed" /\ run_exc' = run_exc
    /\ UNCHANGED <<run_config, run_frame, lrc_metrics, rs_nsym, rs_fragments, lrc_fragment_size, lrc_nsym,
                   lrc_fragments, lrc_result, rs_run_result>>

\* Simulator._reconstruct_lrc
RunReconstructLRC ==
    /\ run_pc = "lrc_failed"
    /\ lrc_result' = Simulator_reconstruct_lrc(nodes, lrc_k, lrc_group_size,
                                               lrc_local_parity, lrc_global_parity,
                                               lrc_fragment_size, lrc_nsym)
    /\ run_steps' = Append(run_steps, "lrc_decode")
    /\ run_pc' = "lrc_reconstructed"
    /\ UNCHANGED <<run_config, run_frame, lrc_metrics, run_exc, nodes, rs_nsym, rs_fragments,
                   lrc_fragment_size, lrc_nsym, lrc_fragments, rs_run_result,
                   lrc_failed_nodes>>

\* Simulator._collect_and_display_metrics: collect_lrc_metrics with
\* global_repair_used = not lrc_local_repair_used
RunCollectLrcMetrics ==
    /\ run_pc = "lrc_reconstructed"
    /\ lrc_metrics' = collect_lrc_metrics(Len(data), lrc_k, lrc_group_size, lrc_local_parity,
                                          lrc_global_parity, lrc_fragment_size,
                                          lrc_result.fragments_accessed,
                                          lrc_result.nodes_contacted,
                                          lrc_result.local_repair_used,
                                          ~lrc_result.local_repair_used)
    /\ run_steps' = Append(run_steps, "collect_metrics")
    /\ run_pc' = "done"
    /\ UNCHANGED <<run_config, run_frame, run_exc, nodes, rs_nsym, rs_fragments,
                   lrc_fragment_size, lrc_nsym, lrc_fragments, lrc_result, rs_run_result,
                   lrc_failed_nodes>>

NextRun ==
    \/ RunValidate
    \/ RunInitialize
    \/ RunEncodeRS
    \/ RunFailRS
    \/ RunReconstructRS
    \/ RunReset
    \/ RunEncodeLRC
    \/ RunFailLRC
    \/ RunReconstructLRC
    \/ RunCollectLrcMetrics

SpecRun == InitRun /\ [][NextRun]_vars

(***************************************************************************)
(* The Cluster methods on their own, called in any order                   *)
(***************************************************************************)
\* everything but the cluster
cluster_frame == <<data, rs_vars, lrc_config, lrc_pc, lrc_fragment_size, lrc_nsym,
                   lrc_fragments, lrc_repaired, lrc_result, run_vars>>

\* a list of len fragments, fragment j of generation g being the bytes g, j
ClusterFragments(len, g) == List([j \in 1..len |-> <<g, j - 1>>], len)

InitCluster ==
    /\ \E n \in 1..MaxClusterNodes : nodes = Cluster(n)
    /\ cl_call = NoCall
    /\ data = <<>>
    /\ IdleRS
    /\ lrc_k = 1 /\ lrc_group_size = 1 /\ lrc_local_parity = 1 /\ lrc_global_parity = 1
    /\ lrc_pc = "idle"
    /\ lrc_fragment_size = 0
    /\ lrc_nsym = 0
    /\ lrc_fragments = <<>>
    /\ lrc_repaired = NoRepair
    /\ lrc_result = NoReconstruction
    /\ num_nodes = 0
    /\ failure_count = 0
    /\ run_pc = "idle"
    /\ run_steps = <<>>
    /\ run_exc = ""
    /\ rs_run_result = <<>>
    /\ lrc_failed_nodes = <<>>
    /\ lrc_metrics = NoMetrics

\* cluster.distribute_fragments(fragments)
ClDistribute(fragments) ==
    /\ LET d == distribute_fragments(nodes, fragments)
       IN  /\ nodes' = d.nodes
           /\ cl_call' = [op |-> "distribute_fragments", arg |-> fragments, pre |-> nodes,
                          exc |-> d.exc, ret |-> <<>>]
    /\ UNCHANGED cluster_frame

\* cluster.fail_nodes(count)
ClFailNodes(count) ==
    /\ \E o \in fail_nodes(nodes, count) :
          /\ nodes' = o.nodes
          /\ cl_call' = [op |-> "fail_nodes", arg |-> <<count>>, pre |-> nodes,
                         exc |-> o.exc, ret |-> o.ret]
    /\ UNCHANGED cluster_frame

\* cluster.fail_nodes_by_indices(indices)
ClFailByIndices(indices) ==
    /\ nodes' = fail_nodes_by_indices(nodes, Range(indices))
    /\ cl_call' = [op |-> "fail_nodes_by_indices", arg |-> indices, pre |-> nodes,
                   exc |-> "", ret |-> failed_ids(nodes, indices)]
    /\ UNCHANGED cluster_frame

\* cluster.reset_all_nodes()
ClReset ==
    /\ nodes' = reset_all_nodes(nodes)
    /\ cl_call' = [op |-> "reset_all_nodes", arg |-> <<>>, pre |-> nodes, exc |-> "",
                   ret |-> <<>>]
    /\ UNCHANGED cluster_frame

NextCluster ==
    \/ \E len \in 0..(Len(nodes) + 1), g \in {0, 1} : ClDistribute(ClusterFragments(len, g))
    \/ \E count \in (-1)..(Len(nodes) + 1) : ClFailNodes(count)
    \/ \E indices \in SeqsUpTo((-1)..Len(nodes), MaxIndices) : ClFailByIndices(indices)
    \/ ClReset

SpecCluster == InitCluster /\ [][NextCluster]_vars

(***************************************************************************)
(* FlatRS claims                                                           *)
(***************************************************************************)
\* indices (0-based) of the fragments missing from the list handed to decode
rs_lost == {i \in 0..(Len(rs_available) - 1) : rs_available[i + 1] = None}

\* C2: with more than r of the k + r fragments missing (all of them included),
\* EncoderRS.decode ends in an error and returns no data. Stated so that only
\* a call that returns bytes without raising violates it.
C2_OverCapacityFails ==
    (rs_pc = "decoded" /\ Cardinality(rs_lost) > rs_r)
    => (rs_result.exc # "" \/ rs_result.val = <<>>)

\* C4: decode of the unmodified list encode returned rebuilds the encoded
\* codeword, byte for byte and with the same length, and returns the payload
C4_RoundTrip ==
    (rs_pc = "decoded" /\ rs_lost = {}) =>
        /\ rs_result.exc = ""
        /\ rs_result.codeword = rs_codeword
        /\ rs_result.val = data

\* C5: with at most r fragments missing (at least one, here), the rebuilt
\* codeword has the length of the encoded one and agrees with it outside the
\* missing fragments, the erasures are exactly the bytes of the missing
\* fragments, and decode returns the payload
C5_AnyKOfN ==
    (rs_pc = "decoded" /\ rs_lost # {} /\ Cardinality(rs_lost) <= rs_r) =>
        LET frag_size == init_rs(rs_k, Len(data))
            erased    == UNION {FragmentBytes(i, frag_size) : i \in rs_lost}
        IN  /\ rs_result.exc = ""
            /\ Len(rs_result.codeword) = Len(rs_codeword)
            /\ \A j \in 1..Len(rs_codeword) :
                  (j - 1) \notin erased => rs_result.codeword[j] = rs_codeword[j]
            /\ {rs_result.erasures[j] : j \in 1..Len(rs_result.erasures)}
                  = erased \cap (0..(Len(rs_codeword) - 1))
            /\ rs_result.val = data

\* C10: each of the k + r fragments encode returns is ceil(len(payload) / k)
\* bytes long
C10_EqualFragmentSize ==
    rs_pc = "encoded" =>
        /\ Len(rs_fragments) = rs_k + rs_r
        /\ \A i \in 1..Len(rs_fragments) :
              Len(rs_fragments[i]) = init_rs(rs_k, Len(data))

(***************************************************************************)
(* LRC claims                                                              *)
(***************************************************************************)
\* the payload does not end in a zero byte, so stripping the padding after a
\* repair cannot remove payload bytes
NoTrailingZero == StripZeros(data) = data

\* indices (0-based) of the fragments encode returned that sit on dead nodes
lrc_lost == {i \in 0..(Len(lrc_fragments) - 1) : ~nodes[i + 1].is_alive}

lrc_lost_data == {i \in lrc_lost : i < lrc_k}

GroupOf(m) == m \div lrc_group_size

GroupMembers(g) == (g * lrc_group_size)..(Min((g + 1) * lrc_group_size, lrc_k) - 1)

\* C1: when more data fragments are missing than global_parity_count, global
\* repair ends in an error and never returns bytes other than the payload.
\* Stated so that only returned bytes that differ from the payload, padding
\* aside, violate it.
C1_GlobalRepairNeverCorrupts ==
    (/\ lrc_pc = "reconstructed"
     /\ ~lrc_result.local_repair_used
     /\ Cardinality(lrc_lost_data) > lrc_global_parity)
    => lrc_result.recovered_data \in {None, StripZeros(data)}

\* C3: with every node alive, reconstruction of what encode produced returns
\* exactly the payload bytes. Stated for the payloads that do not end in a
\* zero byte, where the padding strip takes nothing of the payload.
C3_RoundTrip ==
    (lrc_pc = "reconstructed" /\ failed_positions(nodes) = {} /\ NoTrailingZero)
    => lrc_result.recovered_data = data

\* C6: when fragment m is the only missing fragment of its group and the
\* group's local parity is present, local_repair returns the very fragment
\* encode produced at index m
LocalRepairCase(m) ==
    /\ lrc_pc = "repaired"
    /\ lrc_repaired.index = m
    /\ m \in lrc_lost
    /\ \A i \in GroupMembers(GroupOf(m)) \ {m} : i \notin lrc_lost
    /\ (lrc_k + GroupOf(m)) \notin lrc_lost

C6_LocalRepairExact ==
    \A m \in 0..(lrc_k - 1) :
        LocalRepairCase(m) =>
            /\ lrc_repaired.exc = ""
            /\ lrc_repaired.val = lrc_fragments[m + 1]

\* a non-zero fragment of a two-member group, repaired while another group
\* has lost a fragment too
C6_Witness ==
    \E m \in 0..(lrc_k - 1) :
        /\ LocalRepairCase(m)
        /\ Cardinality(GroupMembers(GroupOf(m))) = 2
        /\ Cardinality(lrc_lost_data) = 2
        /\ lrc_repaired.val = lrc_fragments[m + 1]
        /\ \E b \in 1..Len(lrc_repaired.val) : lrc_repaired.val[b] # 0

\* C7: LOCAL is selected exactly when the missing fragments are one data
\* fragment whose group's local parity is available; every other non-empty
\* pattern selects GLOBAL
LocalPattern ==
    /\ Cardinality(lrc_lost) = 1
    /\ lrc_lost_data = lrc_lost
    /\ \A m \in lrc_lost : (lrc_k + GroupOf(m)) \notin lrc_lost

C7_StrategyIsPureFunctionOfPattern ==
    (lrc_pc = "reconstructed" /\ lrc_lost # {})
    => (lrc_result.local_repair_used <=> LocalPattern)

\* C8: with one data fragment and its own group's local parity missing,
\* reconstruction selects GLOBAL and returns the payload. Stated for the
\* payloads that do not end in a zero byte.
C8_LocalParityMissingFallback ==
    (/\ lrc_pc = "reconstructed"
     /\ NoTrailingZero
     /\ \E m \in 0..(lrc_k - 1) : failed_positions(nodes) = {m, lrc_k + GroupOf(m)})
    => /\ ~lrc_result.local_repair_used
       /\ lrc_result.recovered_data = data

\* C9: encode returns exactly total_fragments fragments
C9_FragmentCount ==
    lrc_pc \in {"encoded", "error"}
    => Len(lrc_fragments) = total_fragments(lrc_k, lrc_group_size, lrc_local_parity,
                                            lrc_global_parity)

\* the data fragments of the list encode returned
lrc_data_fragments == SubSeq(lrc_fragments, 1, lrc_k)

\* ceil(len(payload) / k)
CeilFragmentSize == (Len(data) + lrc_k - 1) \div lrc_k

\* C11: encode produces k data fragments of ceil(len(payload)/k) bytes each,
\* fragment i holding payload bytes [i*fragment_size, (i+1)*fragment_size) in
\* order and zero bytes after the payload's end, so that their concatenation
\* is the payload followed by k*fragment_size - len(payload) zero bytes
C11_Fragmenting ==
    (lrc_fragments # <<>>) =>
        /\ lrc_fragment_size = CeilFragmentSize
        /\ Len(lrc_fragments) >= lrc_k
        /\ \A i \in 0..(lrc_k - 1) :
              /\ Len(lrc_fragments[i + 1]) = CeilFragmentSize
              /\ \A b \in 0..(CeilFragmentSize - 1) :
                    lrc_fragments[i + 1][b + 1] =
                        IF i * CeilFragmentSize + b < Len(data)
                        THEN data[i * CeilFragmentSize + b + 1]
                        ELSE 0
        /\ Join(lrc_data_fragments) = data \o Zeros(lrc_k * CeilFragmentSize - Len(data))

\* a payload whose last byte is non-zero and shares its fragment with padding
C11_Witness ==
    /\ lrc_fragments # <<>>
    /\ data[Len(data)] # 0
    /\ Len(data) % CeilFragmentSize # 0
    /\ lrc_k * CeilFragmentSize > Len(data)

\* byte b (1-based) of the XOR of the data fragments of group g
GroupXorByte(g, b) ==
    LET start == g * lrc_group_size
        end   == Min(start + lrc_group_size, lrc_k)
    IN  XorAll(List([j \in 1..(end - start) |-> lrc_fragments[start + j][b]], end - start))

\* C12: in the list encode returned, indices 0..k-1 are the data fragments,
\* index k+g is the bytewise XOR of the data fragments of group g (the last
\* group may be smaller), the global parity fragments are the remaining
\* trailing entries, and every fragment has fragment_size bytes
C12_Layout ==
    (lrc_fragments # <<>>) =>
        /\ Len(lrc_fragments) =
              lrc_k + num_groups(lrc_k, lrc_group_size) + lrc_global_parity
        /\ \A i \in 1..Len(lrc_fragments) : Len(lrc_fragments[i]) = lrc_fragment_size
        /\ Join(lrc_data_fragments) = data \o Zeros(lrc_k * lrc_fragment_size - Len(data))
        /\ \A g \in 0..(num_groups(lrc_k, lrc_group_size) - 1) :
              \A b \in 1..lrc_fragment_size :
                  lrc_fragments[lrc_k + g + 1][b] = GroupXorByte(g, b)
        /\ IsCodeword(Join(lrc_data_fragments)
                        \o Join(SubSeq(lrc_fragments,
                                       lrc_k + num_groups(lrc_k, lrc_group_size) + 1,
                                       Len(lrc_fragments))),
                      lrc_nsym)

\* two groups, the last one smaller, and a first-group parity that differs
\* from each of the two fragments it covers
C12_Witness ==
    /\ lrc_fragments # <<>>
    /\ lrc_group_size = 2
    /\ lrc_k = 3
    /\ lrc_fragments[lrc_k + 1] # lrc_fragments[1]
    /\ lrc_fragments[lrc_k + 1] # lrc_fragments[2]
    /\ \E b \in 1..lrc_fragment_size : lrc_fragments[lrc_k + 2][b] # 0

\* the group of m has another missing data fragment
OtherMissing(m) == \E i \in GroupMembers(GroupOf(m)) \ {m} : i \in lrc_lost

\* the local parity of the group of m is missing
ParityMissing(m) == (lrc_k + GroupOf(m)) \in lrc_lost

\* C13: local_repair of a missing fragment returns None, and raises nothing,
\* whenever the fragment's group has another missing data fragment or the
\* group's local parity is missing; it returns a fragment only when neither
\* is the case
C13_NotRecoverableLocally ==
    \A m \in 0..(lrc_k - 1) :
        (lrc_pc = "repaired" /\ lrc_repaired.index = m /\ m \in lrc_lost) =>
            /\ lrc_repaired.exc = ""
            /\ (OtherMissing(m) \/ ParityMissing(m)) => lrc_repaired.val = None
            /\ lrc_repaired.val # None => (~OtherMissing(m) /\ ~ParityMissing(m))

\* a repair asked for a fragment whose group lost a second data fragment while
\* the group's local parity is still there
C13_Witness ==
    \E m \in 0..(lrc_k - 1) :
        /\ lrc_pc = "repaired"
        /\ lrc_repaired.index = m
        /\ m \in lrc_lost
        /\ OtherMissing(m)
        /\ ~ParityMissing(m)
        /\ lrc_repaired.val = None

(***************************************************************************)
(* Cluster claims                                                          *)
(***************************************************************************)
\* the indices of the nodes that were alive before the last call
AliveBefore == {i \in 0..(Len(cl_call.pre) - 1) : cl_call.pre[i + 1].is_alive}

\* the indices of the nodes that are alive now
AliveNow == {i \in 0..(Len(nodes) - 1) : nodes[i + 1].is_alive}

\* the entries of a list are pairwise distinct
Distinct(seq) == \A i, j \in 1..Len(seq) : i # j => seq[i] # seq[j]

\* every node stores what it stored before the last call
FragmentsKept ==
    /\ Len(nodes) = Len(cl_call.pre)
    /\ \A i \in 1..Len(nodes) : nodes[i].fragment = cl_call.pre[i].fragment

\* C16: distribute_fragments with more fragments than nodes fails and changes
\* no node's fragment or alive flag; otherwise node i stores fragments[i] for
\* every i < len(fragments)
C16_Distribute ==
    (cl_call.op = "distribute_fragments") =>
        IF Len(cl_call.arg) > Len(cl_call.pre)
        THEN cl_call.exc # "" /\ nodes = cl_call.pre
        ELSE /\ cl_call.exc = ""
             /\ Len(nodes) = Len(cl_call.pre)
             /\ \A i \in 1..Len(cl_call.arg) : nodes[i].fragment = cl_call.arg[i]

\* a rejected list, handed to a cluster whose first node already stores a
\* different fragment
C16_Witness ==
    /\ cl_call.op = "distribute_fragments"
    /\ Len(cl_call.arg) > Len(cl_call.pre)
    /\ cl_call.exc = "ValueError"
    /\ cl_call.pre[1].fragment \notin {None, cl_call.arg[1]}

\* what fail_nodes does to the nodes, given the number of nodes it selects
FailNodesSelects(n) ==
    /\ cl_call.exc = ""
    /\ Len(cl_call.ret) = n
    /\ Distinct(cl_call.ret)
    /\ Range(cl_call.ret) \subseteq AliveBefore
    /\ AliveNow = AliveBefore \ Range(cl_call.ret)

\* C17: fail_nodes(count) selects exactly count distinct nodes that were alive
\* before the call, marks exactly those dead and returns their indices; every
\* other node keeps its alive state, in every cluster state, for every count
C17_FailNodesExactlyCount ==
    (cl_call.op = "fail_nodes" /\ cl_call.arg[1] >= 0) => FailNodesSelects(cl_call.arg[1])

\* C17 as amended: the number of nodes selected is count or, when fewer nodes
\* are alive, the number of alive nodes
C17_FailNodesUpToCount ==
    (cl_call.op = "fail_nodes" /\ cl_call.arg[1] >= 0) =>
        FailNodesSelects(Min(cl_call.arg[1], Cardinality(AliveBefore)))

\* a call that asks for more nodes than are alive, on a cluster with a dead
\* node and an alive one
C17_Witness ==
    /\ cl_call.op = "fail_nodes"
    /\ cl_call.arg[1] > Cardinality(AliveBefore)
    /\ AliveBefore # {}
    /\ Cardinality(AliveBefore) < Len(cl_call.pre)
    /\ Range(cl_call.ret) = AliveBefore

\* C18: fail_nodes_by_indices returns distinct node ids, each alive before the
\* call and dead after it; nodes not in the list keep their alive state, and
\* an index out of range is not reported
C18_FailByIndicesReturn ==
    (cl_call.op = "fail_nodes_by_indices") =>
        /\ Distinct(cl_call.ret)
        /\ Range(cl_call.ret) \subseteq AliveBefore
        /\ Range(cl_call.ret) \cap AliveNow = {}
        /\ AliveNow = AliveBefore \ Range(cl_call.ret)
        /\ Range(cl_call.ret) \subseteq 0..(Len(nodes) - 1)

\* C19: reset_all_nodes makes every node alive and changes no stored
\* fragment; fail_nodes and fail_nodes_by_indices change no stored fragment;
\* distribute_fragments changes no alive flag
C19_Frame ==
    /\ (cl_call.op = "reset_all_nodes") =>
          (FragmentsKept /\ AliveNow = 0..(Len(nodes) - 1))
    /\ (cl_call.op \in {"fail_nodes", "fail_nodes_by_indices"}) => FragmentsKept
    /\ (cl_call.op = "distribute_fragments") => AliveNow = AliveBefore

\* a reset of a cluster in which a dead node stores a fragment
C19_Witness ==
    /\ cl_call.op = "reset_all_nodes"
    /\ \E i \in 1..Len(cl_call.pre) :
          /\ ~cl_call.pre[i].is_alive
          /\ cl_call.pre[i].fragment # None
          /\ nodes[i].fragment = cl_call.pre[i].fragment
          /\ nodes[i].is_alive

(***************************************************************************)
(* Run claims                                                              *)
(***************************************************************************)
\* the place of a step in run_steps, 0 when the run has not taken it
StepAt(step) ==
    IF step \in Range(run_steps) THEN CHOOSE i \in 1..Len(run_steps) : run_steps[i] = step
    ELSE 0

\* the LRC total of the run's config, as EncoderLRC.__init__ derives it
RunTotalFragments ==
    total_fragments(lrc_k, lrc_group_size, lrc_local_parity, lrc_global_parity)

\* C14: once validate_config has run, a config whose LRC total
\* k + ceil(k / group_size) * local_parity + global_parity exceeds NUM_NODES
\* has been rejected
C14_ValidateRejectsOversize ==
    (StepAt("validate_config") > 0 /\ RunTotalFragments > num_nodes)
        => (run_pc = "rejected" /\ run_exc = "ValueError")

\* the configs whose groups are all full: validate_config and EncoderLRC
\* derive the same LRC total for them
FullGroups == lrc_k % lrc_group_size = 0

\* C15: a run whose RS total k + r or LRC total exceeds NUM_NODES never takes
\* an encode step (stated for the configs with full groups)
C15_NoEncodeWhenOversize ==
    (FullGroups /\ (rs_k + rs_r > num_nodes \/ RunTotalFragments > num_nodes))
        => (StepAt("rs_encode") = 0 /\ StepAt("lrc_encode") = 0)

\* C20: the reset comes after the RS decode and before the LRC encode; all
\* nodes are alive when the LRC failures are injected; and the dead nodes that
\* LRC reconstruction reads are exactly the nodes failed in the LRC phase
C20_NoCarryOver ==
    /\ StepAt("lrc_encode") > 0
         => (0 < StepAt("rs_decode") /\ StepAt("rs_decode") < StepAt("reset")
             /\ StepAt("reset") < StepAt("lrc_encode"))
    /\ run_pc = "lrc_encoded" => failed_positions(nodes) = {}
    /\ run_pc \in {"lrc_failed", "lrc_reconstructed"}
         => failed_positions(nodes) = Range(lrc_failed_nodes)

\* an LRC reconstruction after an RS phase that had failed nodes of its own
C20_Witness ==
    /\ run_pc = "lrc_reconstructed"
    /\ rs_run_result.nodes_contacted < num_nodes
    /\ failed_positions(nodes) # {}
    /\ Cardinality(failed_positions(nodes)) = failure_count
    /\ failure_count < num_nodes

(***************************************************************************)
(* Claims on the LRC reconstruction of a run                               *)
(***************************************************************************)
\* the LRC reconstruction of the run has returned
LrcDone == run_pc \in {"lrc_reconstructed", "done"}

\* the LRC reconstruction of the run took the local path
RunLocal == LrcDone /\ lrc_result.local_repair_used

\* C21 as stated: whenever LOCAL repair is selected, the number of fragments
\* reported as read is exactly group_size
C21_LocalReadsGroupSize ==
    RunLocal => lrc_result.fragments_accessed = lrc_group_size

\* C21 amended: whenever LOCAL repair is selected, the number of fragments
\* reported as read is the number of data fragments in the failed fragment's
\* group (the surviving ones plus the local parity), which is group_size for
\* a full group and less for a smaller last group
C21_LocalReadsGroup ==
    RunLocal =>
        LET members == GroupMembers(GroupOf(lrc_failed_nodes[1]))
        IN  /\ lrc_result.fragments_accessed = (Cardinality(members) - 1) + 1
            /\ Cardinality(members) = lrc_group_size
                 => lrc_result.fragments_accessed = lrc_group_size

\* LOCAL repair selected for a fragment of a smaller last group, and for one
\* of a full group of more than one fragment
C21_Witness ==
    /\ RunLocal
    /\ lrc_result.repair_strategy = "LOCAL"
    /\ Cardinality(GroupMembers(GroupOf(lrc_failed_nodes[1]))) < lrc_group_size

(***************************************************************************)
(* Claims on the bytes LRC reconstruction returns                          *)
(***************************************************************************)
\* the lost fragments that belong to the global codeword: data fragments and
\* the global parity fragments, which encode places after one parity per group
lrc_lost_codeword ==
    {i \in lrc_lost : i < lrc_k \/ i >= lrc_k + num_groups(lrc_k, lrc_group_size)}

\* an erasure pattern the scheme can correct: no loss, one data fragment whose
\* local parity survives, or losses within the capacity of the global parity
Correctable ==
    \/ lrc_lost = {}
    \/ \E m \in 0..(lrc_k - 1) : lrc_lost = {m}
    \/ Cardinality(lrc_lost_codeword) <= lrc_global_parity

\* C22: for every correctable erasure pattern LRC reconstruction returns the
\* payload with all its trailing zero bytes removed, on the local path and on
\* the global path alike
C22_PaddingStrip ==
    (lrc_pc = "reconstructed" /\ Correctable)
        => lrc_result.recovered_data = StripZeros(data)

(***************************************************************************)
(* Claims on the order of the steps of a run                               *)
(***************************************************************************)
\* the steps of a whole run, in the order of run_simulation
RunSequence ==
    <<"validate_config", "initialize", "rs_encode", "rs_distribute", "rs_fail", "rs_decode",
      "reset", "lrc_encode", "lrc_distribute", "lrc_fail", "lrc_decode", "collect_metrics">>

IsPrefix(s, t) == Len(s) <= Len(t) /\ s = SubSeq(t, 1, Len(s))

\* C23: the steps taken so far are always the first steps of RS encode, RS
\* distribute, RS fail, RS decode, reset, LRC encode, LRC distribute, LRC fail,
\* LRC decode, in that order (after the validation and the set-up, and before
\* the metrics); and a step taken after a phase's fail step and
\* up to the end of its decode changes no node's alive flag or fragment
C23_StrictSequence ==
    /\ [](IsPrefix(run_steps, RunSequence))
    /\ [][(run_pc \in {"rs_failed", "lrc_failed"}) => (nodes' = nodes)]_vars

\* a run that took every step, with nodes failed in the LRC phase
C23_Witness ==
    /\ StepAt("lrc_decode") = 11
    /\ failed_positions(nodes) # {}
    /\ rs_run_result.nodes_contacted < num_nodes

(***************************************************************************)
(* Claims on what global_repair hands to the codec                         *)
(***************************************************************************)
\* the indices at which encode placed the global parity fragments
EncodedGlobalIndices ==
    (lrc_k + num_groups(lrc_k, lrc_group_size))..(Len(lrc_fragments) - 1)

\* the byte offsets, in the codeword encode produced (data fragments followed
\* by global parity), of the fragments that are lost
LostCodewordBytes ==
    UNION {FragmentBytes(i, lrc_fragment_size) : i \in lrc_lost_data}
    \cup UNION {FragmentBytes(i - num_groups(lrc_k, lrc_group_size), lrc_fragment_size) :
                  i \in lrc_lost \cap EncodedGlobalIndices}

\* C24: with the fragments of an encode on the nodes and any nodes failed,
\* global_repair reads as global parity exactly the fragments encode placed as
\* global parity, and the erase positions it passes to the codec are exactly
\* the bytes of the lost data and global parity fragments in that codeword
C24_GlobalCodeword ==
    lrc_pc \in {"encoded", "failed"} =>
        /\ global_parity_indices(lrc_k, lrc_group_size, lrc_local_parity, lrc_global_parity)
             = EncodedGlobalIndices
        /\ global_repair_erasures(lrc_k, lrc_group_size, lrc_local_parity, lrc_global_parity,
                                  lrc_fragment_size, available_fragments(nodes))
             = LostCodewordBytes

(***************************************************************************)
(* Claims on the failures of the LRC phase                                 *)
(***************************************************************************)
\* C25: when _simulate_failures_lrc has returned, exactly FAILURE_COUNT
\* distinct nodes are dead, one of them at least holds a data fragment, and
\* with FAILURE_COUNT = 1 the reconstruction selects LOCAL repair; the call
\* returns for every FAILURE_COUNT from 1 to the number of nodes
C25_LrcFailures ==
    /\ run_pc \in {"lrc_failed", "lrc_reconstructed"} =>
          /\ Len(lrc_failed_nodes) = failure_count
          /\ Distinct(lrc_failed_nodes)
          /\ failed_positions(nodes) = Range(lrc_failed_nodes)
          /\ Cardinality(failed_positions(nodes)) = failure_count
          /\ \E i \in failed_positions(nodes) : i < lrc_k
    /\ (LrcDone /\ failure_count = 1) =>
          /\ lrc_result.local_repair_used
          /\ lrc_result.repair_strategy = "LOCAL"
    /\ (run_pc = "aborted" /\ StepAt("lrc_distribute") > 0) =>
          (failure_count < 1 \/ failure_count > num_nodes)

\* a run with FAILURE_COUNT = 1 whose LRC phase repaired locally
C25_Witness ==
    /\ LrcDone
    /\ failure_count = 1
    /\ lrc_result.repair_strategy = "LOCAL"
    /\ lrc_failed_nodes[1] < lrc_k

(***************************************************************************)
(* Claims on the LRC metrics record                                        *)
(***************************************************************************)
\* the fragment size collect_lrc_metrics works with
MetricsFragmentSize ==
    IF lrc_fragment_size # 0 THEN lrc_fragment_size ELSE (Len(data) + lrc_k - 1) \div lrc_k

\* C26: in the record collect_lrc_metrics builds, local repair costs no
\* multiplication and (group_size - 1) * fragment_size * 8 XORs, any other
\* repair costs k * fragment_size * 8 of each, the bytes accessed are
\* fragments_used * fragment_size, and LOCAL and GLOBAL are never both set
C26_LrcMetrics ==
    run_pc = "done" =>
        /\ lrc_metrics.local_repair_used = lrc_result.local_repair_used
        /\ lrc_metrics.fragments_used = lrc_result.fragments_accessed
        /\ IF lrc_metrics.local_repair_used
           THEN /\ lrc_metrics.multiplication_operations = 0
                /\ lrc_metrics.xor_operations = (lrc_group_size - 1) * MetricsFragmentSize * 8
           ELSE /\ lrc_metrics.multiplication_operations = lrc_k * MetricsFragmentSize * 8
                /\ lrc_metrics.xor_operations = lrc_k * MetricsFragmentSize * 8
        /\ lrc_metrics.fragments_accessed_bytes
             = lrc_metrics.fragments_used * MetricsFragmentSize
        /\ ~(lrc_metrics.local_repair_used /\ lrc_metrics.global_repair_used)

\* the metrics of a run that repaired locally in a group of two
C26_Witness ==
    /\ run_pc = "done"
    /\ lrc_metrics.local_repair_used
    /\ lrc_metrics.xor_operations > 0
    /\ lrc_metrics.fragments_accessed_bytes > 0

(***************************************************************************)
(* Claims on the agreement of the repair decision with the repair routine  *)
(***************************************************************************)
\* what _reconstruct_lrc decides and returns on the nodes as they are
ReconstructionNow ==
    Simulator_reconstruct_lrc(nodes, lrc_k, lrc_group_size, lrc_local_parity,
                              lrc_global_parity, lrc_fragment_size, lrc_nsym)

\* what local_repair returns for the dead node on the nodes as they are
LocalRepairNow ==
    EncoderLRC_local_repair(lrc_k, lrc_group_size, lrc_fragment_size,
                            available_fragments(nodes),
                            CHOOSE i \in failed_positions(nodes) : TRUE)

\* C27: whenever _reconstruct_lrc selects LOCAL repair, the local_repair call
\* it makes returns a fragment, not None, and the reconstruction returns data
C27_DecisionAgrees ==
    /\ (run_pc = "lrc_failed" /\ ReconstructionNow.local_repair_used) =>
          /\ LocalRepairNow.exc = ""
          /\ LocalRepairNow.val # None
          /\ Len(LocalRepairNow.val) = lrc_fragment_size
    /\ RunLocal => lrc_result.recovered_data # None

\* LOCAL repair about to run for a fragment of a smaller last group
C27_Witness ==
    /\ run_pc = "lrc_failed"
    /\ ReconstructionNow.local_repair_used
    /\ LocalRepairNow.val # None
    /\ Cardinality(GroupMembers(GroupOf(lrc_failed_nodes[1]))) < lrc_group_size

(***************************************************************************)
(* Claims on the state an encoder keeps between calls                      *)
(***************************************************************************)
\* what decode returns for the available fragments on an encoder that has
\* encoded the payload of those fragments and nothing since
RSDecodeFresh ==
    EncoderRS_decode(rs_k, rs_r, EncoderRS_encode(rs_k, rs_r, data).nsym, rs_available)

\* what local_repair returns for index m on an encoder that has encoded the
\* payload of the fragments on the nodes and nothing since
LRCLocalRepairFresh(m) ==
    EncoderLRC_local_repair(lrc_k, lrc_group_size,
                            EncoderLRC_encode(lrc_k, lrc_group_size, lrc_global_parity,
                                              data).fragment_size,
                            available_fragments(nodes), m)

\* C28: the result of decoding a fragment list is the one a fresh encoder
\* gives, whatever payloads were encoded on the encoder since the list's
\* encode, for EncoderRS.decode and for EncoderLRC.local_repair
C28_DecodeIgnoresOtherPayloads ==
    /\ rs_pc = "decoded" =>
          /\ rs_result.exc = RSDecodeFresh.exc
          /\ rs_result.val = RSDecodeFresh.val
    /\ lrc_pc = "repaired" =>
          /\ lrc_repaired.exc = LRCLocalRepairFresh(lrc_repaired.index).exc
          /\ lrc_repaired.val = LRCLocalRepairFresh(lrc_repaired.index).val

\* the alive nodes that hold one of the first count fragments placed by
\* distribute_fragments
AliveHolders(count) ==
    {i \in 1..Len(nodes) : i <= count /\ nodes[i].is_alive /\ nodes[i].fragment # None}

\* C29: the fragments_accessed value returned by _reconstruct_rs and by
\* _reconstruct_lrc is at most the number of alive nodes that hold a fragment
\* of the scheme being decoded
C29_AccessedWithinReadable ==
    /\ run_pc = "rs_reconstructed" =>
          rs_run_result.fragments_accessed <= Cardinality(AliveHolders(Len(rs_fragments)))
    /\ LrcDone =>
          lrc_result.fragments_accessed <= Cardinality(AliveHolders(Len(lrc_fragments)))

\* the node indices whose fragment the LRC reconstruction of the run has
\* used: on the local path the other data fragments of the group and its
\* local parity, on the global path the data fragments and the fragments
\* global_repair takes as global parity; a dead node's entry is None
LrcReadIndices ==
    LET failed      == failed_positions(nodes)
        failed_pos  == CHOOSE i \in failed : TRUE
        group_start == (failed_pos \div lrc_group_size) * lrc_group_size
        group_end   == Min(group_start + lrc_group_size, lrc_k)
        wanted ==
            IF lrc_result.local_repair_used
            THEN ((group_start..(group_end - 1)) \ {failed_pos})
                     \cup {lrc_k + (failed_pos \div lrc_group_size)}
            ELSE (0..(lrc_k - 1))
                     \cup global_parity_indices(lrc_k, lrc_group_size, lrc_local_parity,
                                                lrc_global_parity)
    IN  {i \in wanted : i < Len(nodes) /\ nodes[i + 1].is_alive}

\* the node indices that the LRC distribute_fragments left alone and that
\* still hold the fragment the RS phase stored there
StaleRSIndices ==
    {i \in 0..(Len(nodes) - 1) : i >= Len(lrc_fragments) /\ i < Len(rs_fragments)}

\* C30: when the RS and LRC total fragment counts differ, LRC reconstruction
\* reads no fragment that the RS phase stored on a node
C30_NoRSFragmentRead ==
    (LrcDone /\ rs_k + rs_r # RunTotalFragments) => LrcReadIndices \cap StaleRSIndices = {}

====
